---- MODULE Spec2Model ----
(***************************************************************************)
(* The homedeck gateway (web/server.ts): the relay manager that shares one *)
(* upstream WebSocket per host among browser clients, the host validator,  *)
(* the HTTP proxy routes, and device discovery: the Bonjour scan of        *)
(* web/server.ts and the mDNS table of the gateway in unnamed/part_001.    *)
(*                                                                         *)
(* Strings the code inspects character by character (hosts) are sequences  *)
(* of one-character strings; strings it only compares or embeds are TLA+   *)
(* strings.  A formatted string (a template literal) is the sequence of    *)
(* its literal pieces and interpolated values.                             *)
(***************************************************************************)
EXTENDS Integers, Sequences, FiniteSets, TLC

\* ------------------------------------------------------------------ bounds
NumClients == 3        \* browser connections that ever reach the gateway
NumRequests == 2       \* HTTP proxy requests that ever reach the gateway
MaxConns == 2          \* upstream WebSockets the manager may create in a run

Clients == 1..NumClients

\* "1.1.1.1:80": an ipv4:port literal
HostA == <<"1", ".", "1", ".", "1", ".", "1", ":", "8", "0">>
\* "device.lan:80": matches (.+) of the upgrade path, is no ipv4:port literal
HostB == <<"d", "e", "v", "i", "c", "e", ".", "l", "a", "n", ":", "8", "0">>
RelayHosts == {HostA, HostB}
Versions == {"1"}
NoHost == <<>>

VARIABLES
    remoteConnections,  \* Map host -> upstream WebSocket (index into sockets)
    clientGroups,       \* Map host -> Set of clients
    sockets,            \* every upstream WebSocket created, in creation order
    clients,            \* the browser-side WebSockets
    last,               \* what the handler that ran last sent, and to whom
    str,                \* the argument of an isValidHost call
    verdict,            \* "pending" until the call returns, then "valid" or "invalid"
    requests,           \* the HTTP proxy requests: where each handler is, its response
    fetched,            \* the fetch calls the proxy handlers issued
    MDNS_SERVICES,      \* the discovery table: advertised name -> MdnsDevice
    heard,              \* the mDNS responses received so far, oldest first
    snapshots,          \* the GET /devices requests: where each handler is, its response
    scans               \* the GET /devices requests of web/server.ts: one Bonjour scan each

relayVars == <<remoteConnections, clientGroups, sockets, clients, last>>
hostVars == <<str, verdict>>
proxyVars == <<requests, fetched>>
mdnsVars == <<MDNS_SERVICES, heard, snapshots, scans>>
vars == <<remoteConnections, clientGroups, sockets, clients, last, str, verdict,
          requests, fetched, MDNS_SERVICES, heard, snapshots, scans>>

\* ------------------------------------------------------------ Map helpers
EmptyMap == [k \in {} |-> 0]
MapHas(m, k) == k \in DOMAIN m
MapSet(m, k, v) == [x \in (DOMAIN m) \cup {k} |-> IF x = k THEN v ELSE m[x]]
MapDelete(m, k) == [x \in (DOMAIN m) \ {k} |-> m[x]]

\* what the handler that ran last sent, and to whom; Quiet when it sent nothing
Quiet == [op |-> "none", client |-> 0, conn |-> 0, to |-> {}, frame |-> <<>>]
Sent(op, client, conn, to, frame) ==
    [op |-> op, client |-> client, conn |-> conn, to |-> to, frame |-> frame]


\* ------------------------------------------------------------ isValidHost
Digits == {"0", "1", "2", "3", "4", "5", "6", "7", "8", "9"}

DigitValue(ch) ==
    CASE ch = "0" -> 0 [] ch = "1" -> 1 [] ch = "2" -> 2 [] ch = "3" -> 3
      [] ch = "4" -> 4 [] ch = "5" -> 5 [] ch = "6" -> 6 [] ch = "7" -> 7
      [] ch = "8" -> 8 [] ch = "9" -> 9

\* the positions a run of lo..hi digits starting at i can end before: \d{lo,hi}
digitRuns(s, i, lo, hi) ==
    {j \in (i + lo)..(i + hi) :
        j <= Len(s) + 1 /\ \A m \in i..(j - 1) : s[m] \in Digits}

afterDigits(s, P, lo, hi) == UNION {digitRuns(s, i, lo, hi) : i \in P}

\* the positions after the literal character ch matched at a position of P
afterChar(s, P, ch) == {j + 1 : j \in {p \in P : p <= Len(s) /\ s[p] = ch}}

\* one repetition of (?:\d{1,3}\.)
octetDot(s, P) == afterChar(s, afterDigits(s, P, 1, 3), ".")

\* /^(?:\d{1,3}\.){3}\d{1,3}:\d{1,5}$/.test(s): the pattern is anchored at both
\* ends, so it matches when a path through it ends just past the last character
regexTest(s) ==
    LET octets3 == octetDot(s, octetDot(s, octetDot(s, {1})))
        octet4 == afterDigits(s, octets3, 1, 3)
        colon == afterChar(s, octet4, ":")
        port == afterDigits(s, colon, 1, 5)
    IN (Len(s) + 1) \in port

\* String.prototype.split with a one-character separator
RECURSIVE split(_, _)
split(s, sep) ==
    IF \A i \in DOMAIN s : s[i] # sep
    THEN <<s>>
    ELSE LET i == CHOOSE x \in DOMAIN s :
                      s[x] = sep /\ \A y \in 1..(x - 1) : s[y] # sep
         IN <<SubSeq(s, 1, i - 1)>> \o split(SubSeq(s, i + 1, Len(s)), sep)

NaN == -1

\* Number(s) of a string of decimal digits ("" is 0); NaN for any other string
\* this model meets (regex.test lets only digits reach Number)
RECURSIVE Number(_)
Number(s) ==
    IF s = <<>> THEN 0
    ELSE IF \E i \in DOMAIN s : s[i] \notin Digits THEN NaN
    ELSE 10 * Number(SubSeq(s, 1, Len(s) - 1)) + DigitValue(s[Len(s)])

\* a port of 0 accepted
validPortFromZero(port) == Number(port) # NaN /\ Number(port) >= 0 /\ Number(port) <= 65535

\* Number(port) >= 1 && Number(port) <= 65535 (a comparison with NaN is false)
validPort(port) == Number(port) # NaN /\ Number(port) >= 1 /\ Number(port) <= 65535

\* octets.every(n => n >= 0 && n <= 255)
validIp(octets) ==
    \A i \in DOMAIN octets : octets[i] # NaN /\ octets[i] >= 0 /\ octets[i] <= 255

isValidHost(s) ==
    IF ~regexTest(s)
    THEN FALSE
    ELSE LET parts == split(s, ":")
             ip == parts[1]
             port == parts[2]
             groups == split(ip, ".")
             octets == [i \in DOMAIN groups |-> Number(groups[i])]
         IN validIp(octets) /\ validPort(port)

\* ------------------------------------------------------------ proxy routes
Requests == 1..NumRequests
Endpoints == {"configuration", "schema", "start", "stop", "deleteEverything"}
ProxyHosts == {HostA, HostB}

\* what a device may answer: the raw text of its body, whether the text is
\* JSON, and the JSON value re-encoded by the gateway
DeviceBodies ==
    {[text |-> "{ \"on\": true }", decodes |-> TRUE, value |-> "{\"on\":true}"],
     [text |-> "type: object", decodes |-> FALSE, value |-> ""]}
NoBody == [text |-> "", decodes |-> FALSE, value |-> ""]

\* express.json(): the parsed body of a POST, "undefined" when there is none
PostBodies == {"undefined", "{\"page\":1}"}

NoRequest ==
    [pc |-> "idle", method |-> "", host |-> NoHost, apiVersion |-> "", endpoint |-> "",
     device |-> "none", body |-> NoBody, responses |-> <<>>]

\* ['configuration', 'schema'] and ['configuration', 'start', 'stop']
getWhitelistWithStart == {"configuration", "schema", "start"}
getWhitelist == {"configuration", "schema"}
postWhitelist == {"configuration", "start", "stop"}

\* `http://${host}/v${apiVersion}/${endpoint}`
proxyUrl(host, apiVersion, endpoint) == <<"http://", host, "/v", apiVersion, "/", endpoint>>

\* res.json / res.send of an object, and res.send of a string.  A body is
\* { error: ... } or what the device answered, tagged [device |-> ...]
jsonResponse(body) == [type |-> "json", body |-> body]
textResponse(body) == [type |-> "text", body |-> body]

invalidHost(host) == jsonResponse([error |-> <<"Invalid host: ", host>>])
invalidEndpoint(endpoint) == jsonResponse([error |-> <<"Invalid endpoint: ", endpoint>>])
unreachable(url) == jsonResponse([error |-> <<"Unreachable: ", url>>])

\* a handler whose failures are not caught: nothing is sent
uncaught(url) == <<>>

\* catch (e) { console.log(e); res.json({ error: `Unreachable: ${url}` }) }
catch(url) == <<unreachable(url)>>

\* the handler up to its first await: validation, whitelist, then fetch(url)
proxyHandler(r, method, whitelist, host, apiVersion, endpoint, fetchBody) ==
    LET req == [NoRequest EXCEPT !.method = method, !.host = host,
                                 !.apiVersion = apiVersion, !.endpoint = endpoint]
    IN
    IF ~isValidHost(host)
    THEN /\ requests' = [requests EXCEPT ![r] =
                [req EXCEPT !.pc = "done", !.responses = <<invalidHost(host)>>]]
         /\ UNCHANGED fetched
    ELSE IF endpoint \notin whitelist
    THEN /\ requests' = [requests EXCEPT ![r] =
                [req EXCEPT !.pc = "done", !.responses = <<invalidEndpoint(endpoint)>>]]
         /\ UNCHANGED fetched
    ELSE /\ requests' = [requests EXCEPT ![r] = [req EXCEPT !.pc = "fetch"]]
         /\ fetched' = fetched \cup
                {[req |-> r, method |-> method,
                  url |-> proxyUrl(host, apiVersion, endpoint), body |-> fetchBody]}

\* app.get('/proxy/:host/v:api_version/:endpoint'); requests are numbered in the
\* order they arrive
ProxyGet(r, host, apiVersion, endpoint) ==
    /\ requests[r].pc = "idle"
    /\ \A q \in Requests : q < r => requests[q].pc # "idle"
    /\ proxyHandler(r, "GET", getWhitelist, host, apiVersion, endpoint, "")
    /\ UNCHANGED <<relayVars, hostVars, mdnsVars>>

\* app.post('/proxy/:host/v:api_version/:endpoint'): the fetch carries
\* JSON.stringify(req.body || {})
ProxyPost(r, host, apiVersion, endpoint, postData) ==
    /\ requests[r].pc = "idle"
    /\ \A q \in Requests : q < r => requests[q].pc # "idle"
    /\ proxyHandler(r, "POST", postWhitelist, host, apiVersion, endpoint,
                    IF postData = "undefined" THEN "{}" ELSE postData)
    /\ UNCHANGED <<relayVars, hostVars, mdnsVars>>

\* await fetch(url) resolves: the device answered with some body
FetchResolves(r, body) ==
    /\ requests[r].pc = "fetch"
    /\ requests' = [requests EXCEPT ![r].pc = "body", ![r].body = body,
                                    ![r].device = "answered"]
    /\ UNCHANGED <<fetched, relayVars, hostVars, mdnsVars>>

\* await fetch(url) rejects: the connection failed, or the runtime gave up
\* waiting for the device
FetchRejects(r) ==
    /\ requests[r].pc = "fetch"
    /\ requests' = [requests EXCEPT ![r].pc = "done", ![r].device = "unreachable",
           ![r].responses = @ \o catch(proxyUrl(requests[r].host,
                                   requests[r].apiVersion, requests[r].endpoint))]
    /\ UNCHANGED <<fetched, relayVars, hostVars, mdnsVars>>

\* await response.text() / response.json() settles: the schema is passed on as
\* text, every other body is decoded and sent as JSON; a body that cannot be
\* read (intact = FALSE) or decoded lands in the catch
BodySettles(r, intact) ==
    /\ requests[r].pc = "body"
    /\ LET req == requests[r]
           url == proxyUrl(req.host, req.apiVersion, req.endpoint)
           asText == req.method = "GET" /\ req.endpoint = "schema"
       IN requests' = [requests EXCEPT ![r] =
              IF ~intact
              THEN [req EXCEPT !.pc = "done", !.device = "broke",
                               !.responses = @ \o catch(url)]
              ELSE IF asText
              THEN [req EXCEPT !.pc = "done",
                               !.responses = @ \o <<textResponse([device |-> req.body.text])>>]
              ELSE IF req.body.decodes
              THEN [req EXCEPT !.pc = "done",
                               !.responses = @ \o <<jsonResponse([device |-> req.body.value])>>]
              ELSE [req EXCEPT !.pc = "done", !.device = "undecodable",
                               !.responses = @ \o catch(url)]]
    /\ UNCHANGED <<fetched, relayVars, hostVars, mdnsVars>>

\* ------------------------------------------------- RemoteWebSocketManager

\* registerClient: group?.add(client) -- nothing when the host has no group
registerClient(client, host) ==
    IF MapHas(clientGroups, host)
    THEN [clientGroups EXCEPT ![host] = @ \cup {client}]
    ELSE clientGroups

\* the guard of open's early return: an entry exists and is not OPEN
openReuses(host) ==
    /\ MapHas(remoteConnections, host)
    /\ sockets[remoteConnections[host]].readyState # "OPEN"

\* new WebSocket(`ws://${host}/v${apiVersion}/ws`)
newWebSocket(host, apiVersion) ==
    [url |-> <<"ws://", host, "/v", apiVersion, "/ws">>, host |-> host,
     readyState |-> "CONNECTING", closeCalls |-> 0]

\* a manager that does not record the socket it created
openForgetsConnection(host, remoteWs) == remoteConnections

\* this.remoteConnections.set(host, remoteWs)
openRecordsConnection(host, remoteWs) == MapSet(remoteConnections, host, remoteWs)

\* const group = new Set(); group.add(client); this.clientGroups.set(host, group)
openRecordsGroup(client, host) == MapSet(clientGroups, host, {client})

\* the WebSocket open returns
openResult(host) ==
    IF openReuses(host) THEN remoteConnections[host] ELSE Len(sockets) + 1

open(client, host, apiVersion) ==
    IF openReuses(host)
    THEN /\ clientGroups' = registerClient(client, host)
         /\ UNCHANGED <<remoteConnections, sockets>>
    ELSE /\ Len(sockets) < MaxConns
         /\ sockets' = Append(sockets, newWebSocket(host, apiVersion))
         /\ remoteConnections' = openRecordsConnection(host, Len(sockets) + 1)
         /\ clientGroups' = openRecordsGroup(client, host)

\* ws close(): CLOSED stays CLOSED, every other state becomes (or stays) CLOSING
wsClose(ws) ==
    [ws EXCEPT !.readyState = IF @ = "CLOSED" THEN "CLOSED" ELSE "CLOSING",
               !.closeCalls = @ + 1]

\* a close that does not take the client out of the group
closeGroupKeepsClient(client, host) ==
    IF MapHas(clientGroups, host) THEN clientGroups[host] ELSE {}

\* the group close works on: group?.delete(client)
closeGroup(client, host) ==
    IF MapHas(clientGroups, host) THEN clientGroups[host] \ {client} ELSE {}

\* if (!group || group.size === 0)
closeTearsDown(client, host) ==
    ~MapHas(clientGroups, host) \/ closeGroup(client, host) = {}

close(client, host) ==
    IF closeTearsDown(client, host)
    THEN /\ sockets' = IF MapHas(remoteConnections, host)
                       THEN [sockets EXCEPT ![remoteConnections[host]] = wsClose(@)]
                       ELSE sockets
         /\ clientGroups' = MapDelete(clientGroups, host)
         /\ UNCHANGED remoteConnections
    ELSE /\ clientGroups' = [clientGroups EXCEPT ![host] = closeGroup(client, host)]
         /\ UNCHANGED <<remoteConnections, sockets>>

\* ------------------------------------------------- upstream socket events

\* remoteWs.on('open'): the handler logs; the socket is OPEN from here on
RemoteOpen(k) ==
    /\ sockets[k].readyState = "CONNECTING"
    /\ sockets' = [sockets EXCEPT ![k].readyState = "OPEN"]
    /\ last' = Quiet
    /\ UNCHANGED <<remoteConnections, clientGroups, clients>>
    /\ UNCHANGED <<hostVars, proxyVars, mdnsVars>>

\* remoteWs.on('error'): the handler logs; ws is closing the socket
RemoteError(k) ==
    /\ sockets[k].readyState \in {"CONNECTING", "OPEN"}
    /\ sockets' = [sockets EXCEPT ![k].readyState = "CLOSING"]
    /\ last' = Quiet
    /\ UNCHANGED <<remoteConnections, clientGroups, clients>>
    /\ UNCHANGED <<hostVars, proxyVars, mdnsVars>>

\* a close handler that leaves the entry in place
onRemoteCloseKeepsEntry(host) == remoteConnections

\* the handler of 'close': this.remoteConnections.delete(host)
onRemoteClose(host) == MapDelete(remoteConnections, host)

\* remoteWs.on('close'): a socket emits it once, when it becomes CLOSED
RemoteClose(k) ==
    /\ sockets[k].readyState # "CLOSED"
    /\ sockets' = [sockets EXCEPT ![k].readyState = "CLOSED"]
    /\ remoteConnections' = onRemoteClose(sockets[k].host)
    /\ last' = Quiet
    /\ UNCHANGED <<clientGroups, clients>>
    /\ UNCHANGED <<hostVars, proxyVars, mdnsVars>>

\* a broadcast to every OPEN client of the gateway
broadcastToAll(host) == {c \in DOMAIN clients : clients[c].readyState = "OPEN"}

\* the clients a message of `host` is sent to: the group's members that are OPEN
broadcastTargets(host) ==
    {c \in (IF MapHas(clientGroups, host) THEN clientGroups[host] ELSE {}) :
        clients[c].readyState = "OPEN"}

\* remoteWs.on('message'): client.send(msg, { binary: isBinary }) to each target;
\* ws delivers frames of a socket until its close handshake ends
RemoteMessage(k, msg, isBinary) ==
    /\ sockets[k].readyState \in {"OPEN", "CLOSING"}
    /\ last' = Sent("message", 0, k, broadcastTargets(sockets[k].host), <<msg, isBinary>>)
    /\ UNCHANGED <<remoteConnections, clientGroups, sockets, clients>>
    /\ UNCHANGED <<hostVars, proxyVars, mdnsVars>>

\* ----------------------------------------------------- gateway front door

\* wss.on('connection'): open, then the client's handlers are installed
Connection(c, host, apiVersion) ==
    /\ open(c, host, apiVersion)
    /\ clients' = [clients EXCEPT ![c] =
           [readyState |-> "OPEN", host |-> host, remoteWs |-> openResult(host),
            closed |-> FALSE]]
    /\ last' = Quiet

\* server.on('upgrade'): a path that is not /proxy/<host>/v<version>/ws destroys
\* the socket; otherwise host and version are taken from the path as they are.
\* Clients are numbered in the order their upgrade requests arrive.
Upgrade(c, path) ==
    /\ clients[c].readyState = "NEW"
    /\ \A d \in Clients : d < c => clients[d].readyState # "NEW"
    /\ IF path.shape = "relay"
       THEN Connection(c, path.host, path.version)
       ELSE /\ clients' = [clients EXCEPT ![c].readyState = "CLOSED"]
            /\ last' = Quiet
            /\ UNCHANGED <<remoteConnections, clientGroups, sockets>>
    /\ UNCHANGED <<hostVars, proxyVars, mdnsVars>>

UpgradePaths ==
    [shape : {"relay"}, host : RelayHosts, version : Versions]
        \cup {[shape |-> "other", host |-> NoHost, version |-> "1"]}

\* a handler that sends whatever state the socket is in
onClientMessageAlways(c, msg) == Sent("send", c, clients[c].remoteWs, {}, <<msg>>)

\* if (remoteWs.readyState === WebSocket.OPEN) remoteWs.send(msg), remoteWs
\* being the socket open returned to this client
onClientMessage(c, msg) ==
    IF sockets[clients[c].remoteWs].readyState = "OPEN"
    THEN Sent("send", c, clients[c].remoteWs, {}, <<msg>>)
    ELSE Sent("drop", c, 0, {}, <<msg>>)

\* client.on('message'): remoteWs.send(msg) when the returned socket is OPEN
ClientMessage(c, msg) ==
    /\ clients[c].readyState = "OPEN"
    /\ clients[c].remoteWs # 0
    /\ last' = onClientMessage(c, msg)
    /\ UNCHANGED <<remoteConnections, clientGroups, sockets, clients>>
    /\ UNCHANGED <<hostVars, proxyVars, mdnsVars>>

\* client.on('error'): the handler logs; ws is closing the client socket
ClientError(c) ==
    /\ clients[c].readyState = "OPEN"
    /\ clients[c].remoteWs # 0
    /\ clients' = [clients EXCEPT ![c].readyState = "CLOSING"]
    /\ last' = Quiet
    /\ UNCHANGED <<remoteConnections, clientGroups, sockets>>
    /\ UNCHANGED <<hostVars, proxyVars, mdnsVars>>

\* client.on('close'): remoteWsManager.close(client, host)
ClientClose(c) ==
    /\ clients[c].readyState \in {"OPEN", "CLOSING"}
    /\ clients[c].remoteWs # 0
    /\ close(c, clients[c].host)
    /\ clients' = [clients EXCEPT ![c].readyState = "CLOSED", ![c].closed = TRUE]
    /\ last' = Quiet
    /\ UNCHANGED <<hostVars, proxyVars, mdnsVars>>

Payloads == {"m"}
\* [msg, isBinary] of the frames a device sends
Frames == {<<"m", TRUE>>}

\* ------------------------------------------------------ discovery registry
\* (unnamed/part_001: the gateway that listens to mDNS itself)

NumSnapshots == 1      \* GET /devices requests that ever reach the gateway
MaxHeard == 4          \* mDNS responses a recorded run receives
Snapshots == 1..NumSnapshots

ServiceType == "_homedeck._tcp.local"

\* the devices of the network: advertised name, SRV target and port, A address
Deck1 ==
    [name |-> "deck1._homedeck._tcp.local", target |-> "deck1.local",
     address |-> "10.0.0.1", port |-> 80]
Deck2 ==
    [name |-> "deck2._homedeck._tcp.local", target |-> "deck2.local",
     address |-> "10.0.0.2", port |-> 8080]
Devices == {Deck1, Deck2}

\* TXT data is an array of entries; an entry is written as its lexemes: the
\* runs of characters between '=' signs, and the '=' signs themselves
TxtFull == << <<"version", "=", "1.0">>, <<"api_version", "=", "1">> >>
TxtNoApi == << <<"version", "=", "1.0">>, <<"beta">> >>
TxtOdd == << <<"path", "=", "a", "=", "b">>, <<"api_version", "=">> >>
TxtData == {TxtFull, TxtNoApi, TxtOdd}

\* the resource records of a response; data starts with the record type
PTR(d) == [type |-> "PTR", name |-> ServiceType, data |-> <<"PTR", d.name>>]
SRV(d) == [type |-> "SRV", name |-> d.name, data |-> <<"SRV", d.target, d.port>>]
A(d) == [type |-> "A", name |-> d.target, data |-> <<"A", d.address>>]
TXT(d, txtData) == [type |-> "TXT", name |-> d.name, data |-> <<"TXT", txtData>>]
ForeignPTR ==
    [type |-> "PTR", name |-> "_http._tcp.local",
     data |-> <<"PTR", "printer._http._tcp.local">>]
AAAA(d) == [type |-> "AAAA", name |-> d.target, data |-> <<"AAAA", "fe80::1">>]

\* a JavaScript object used as a table: its keys in insertion order, and the
\* value at each key
EmptyObject == [keys |-> <<>>, at |-> EmptyMap]
hasKey(o, key) == key \in DOMAIN o.at
setKey(o, key, v) ==
    [keys |-> IF hasKey(o, key) THEN o.keys ELSE Append(o.keys, key),
     at |-> MapSet(o.at, key, v)]

\* a PTR handler that starts the table afresh with the announced name
onPtrFresh(table, answer) ==
    setKey(EmptyObject, answer.data[2], MapSet(EmptyMap, "name", answer.data[2]))

\* a PTR answer of the service: if (!MDNS_SERVICES[host]) MDNS_SERVICES[host] = {};
\* MDNS_SERVICES[host].name = host
onPtr(table, answer) ==
    LET host == answer.data[2]
        made == IF hasKey(table, host) THEN table ELSE setKey(table, host, EmptyMap)
    IN setKey(made, host, MapSet(made.at[host], "name", host))

\* response.answers.filter(...).forEach(...)
RECURSIVE onAnswers(_, _)
onAnswers(table, answers) ==
    IF answers = <<>> THEN table
    ELSE onAnswers(IF Head(answers).name = ServiceType /\ Head(answers).type = "PTR"
                   THEN onPtr(table, Head(answers))
                   ELSE table,
                   Tail(answers))

\* the text of one piece of a split entry
pieceText(piece) == IF piece = <<>> THEN "" ELSE piece[1]

\* const [key, value] = entry.split('='); txtObject[key] = value || true
txtEntry(txtObject, entry) ==
    LET parts == split(entry, "=")
        key == pieceText(parts[1])
        value == IF Len(parts) >= 2 THEN pieceText(parts[2]) ELSE ""
    IN MapSet(txtObject, key,
              IF value = "" THEN <<"boolean", TRUE>> ELSE <<"string", value>>)

\* for (const buf of txtData) { ... }
RECURSIVE txtParse(_, _)
txtParse(txtObject, txtData) ==
    IF txtData = <<>> THEN txtObject
    ELSE txtParse(txtEntry(txtObject, Head(txtData)), Tail(txtData))

\* case 'SRV'
onSrv(table, answer) ==
    IF ~hasKey(table, answer.name) THEN table
    ELSE setKey(table, answer.name,
                MapSet(MapSet(table.at[answer.name], "host", answer.data[2]),
                       "port", answer.data[3]))

\* case 'A': every record whose host is the answer's name gets the address
onA(table, answer) ==
    [table EXCEPT !.at = [key \in DOMAIN table.at |->
        IF "host" \in DOMAIN table.at[key] /\ table.at[key].host = answer.name
        THEN MapSet(table.at[key], "address", answer.data[2])
        ELSE table.at[key]]]

\* case 'TXT'
onTxt(table, answer) ==
    IF ~hasKey(table, answer.name) THEN table
    ELSE setKey(table, answer.name,
                MapSet(table.at[answer.name], "properties",
                       txtParse(EmptyMap, answer.data[2])))

\* response.additionals.forEach(answer => { switch (answer.type) ... })
RECURSIVE onAdditionals(_, _)
onAdditionals(table, additionals) ==
    IF additionals = <<>> THEN table
    ELSE LET answer == Head(additionals)
         IN onAdditionals(CASE answer.type = "SRV" -> onSrv(table, answer)
                            [] answer.type = "A" -> onA(table, answer)
                            [] answer.type = "TXT" -> onTxt(table, answer)
                            [] OTHER -> table,
                          Tail(additionals))

\* mdnsInstance.on('response'): the answers, then the additionals
onResponse(table, response) ==
    onAdditionals(onAnswers(table, response.answers), response.additionals)

Response(response) ==
    /\ MDNS_SERVICES' = onResponse(MDNS_SERVICES, response)
    /\ UNCHANGED <<snapshots, scans, relayVars, hostVars, proxyVars>>

\* a response that carries one resource record
single(answer) ==
    IF answer.type = "PTR"
    THEN [answers |-> <<answer>>, additionals |-> <<>>]
    ELSE [answers |-> <<>>, additionals |-> <<answer>>]

\* a response that announces a device in full
announce(d, txtData) ==
    [answers |-> <<PTR(d)>>, additionals |-> <<SRV(d), TXT(d, txtData), A(d)>>]

Responses ==
    {single(PTR(d)) : d \in Devices} \cup {single(SRV(d)) : d \in Devices}
        \cup {single(A(d)) : d \in Devices}
        \cup {single(TXT(d[1], d[2])) : d \in Devices \X TxtData}
        \cup {single(ForeignPTR), single(AAAA(Deck1))}
        \cup {announce(d, TxtFull) : d \in Devices}

\* String(port) of the ports the devices advertise
decimal(port) == CASE port = 80 -> "80" [] port = 8080 -> "8080"

\* what a template literal makes of a value that may be undefined
addressText(service) ==
    IF "address" \in DOMAIN service THEN service.address ELSE "undefined"
portText(service) ==
    IF "port" \in DOMAIN service THEN decimal(service.port) ELSE "undefined"
apiVersionText(service) ==
    IF "properties" \in DOMAIN service
           /\ "api_version" \in DOMAIN service.properties
    THEN IF service.properties["api_version"][1] = "string"
         THEN service.properties["api_version"][2]
         ELSE "true"
    ELSE "undefined"

\* `http://${service.address}:${service.port}/v${service.properties?.api_version}/status`
statusUrl(service) ==
    <<"http://", addressText(service), ":", portText(service), "/v",
      apiVersionText(service), "/status">>

\* fetch rejects at once a URL whose port is not a number
urlParses(url) == url[4] # "undefined"

\* what a probe can come to: status 200, another status, a rejected fetch
ProbeOutcomes == {"200", "404", "rejected"}

\* a URL whose host is the word undefined names no device: nothing answers it
namesDevice(url) == url[2] # "undefined"

NoSnapshot ==
    [pc |-> "idle", list |-> <<>>, i |-> 0, url |-> <<>>, outcomes |-> <<>>,
     services |-> <<>>, response |-> <<>>]

\* the loop of GET /devices from its i-th record on, up to the next await that
\* waits for a device: a record whose URL does not parse is caught and passed
\* by; after the last record res.send({ data: services }) serialises the
\* records as they are at that moment
RECURSIVE probeFrom(_, _)
probeFrom(snap, i) ==
    IF i > Len(snap.list)
    THEN [snap EXCEPT !.pc = "done", !.i = i, !.url = <<>>,
             !.response = [j \in DOMAIN snap.services |->
                              MDNS_SERVICES.at[snap.services[j]]]]
    ELSE LET url == statusUrl(MDNS_SERVICES.at[snap.list[i]])
         IN IF urlParses(url)
            THEN [snap EXCEPT !.pc = "probing", !.i = i, !.url = url]
            ELSE probeFrom([snap EXCEPT !.outcomes = Append(@, "rejected")], i + 1)

\* app.get('/devices'): Object.values(MDNS_SERVICES), then the first probe;
\* requests are numbered in the order they arrive
DevicesGet(q) ==
    /\ snapshots[q].pc = "idle"
    /\ \A p \in Snapshots : p < q => snapshots[p].pc # "idle"
    /\ snapshots' = [snapshots EXCEPT ![q] =
           probeFrom([NoSnapshot EXCEPT !.list = MDNS_SERVICES.keys], 1)]
    /\ UNCHANGED <<MDNS_SERVICES, heard, scans, relayVars, hostVars, proxyVars>>

\* await fetch(url, { method: 'HEAD' }) settles: a 200 pushes the record, and
\* the loop goes on
ProbeSettles(q, outcome) ==
    /\ snapshots[q].pc = "probing"
    /\ outcome # "rejected" => namesDevice(snapshots[q].url)
    /\ LET snap == snapshots[q]
           pushed == IF outcome = "200"
                     THEN Append(snap.services, snap.list[snap.i])
                     ELSE snap.services
       IN snapshots' = [snapshots EXCEPT ![q] =
              probeFrom([snap EXCEPT !.outcomes = Append(@, outcome),
                                     !.services = pushed],
                        snap.i + 1)]
    /\ UNCHANGED <<MDNS_SERVICES, heard, scans, relayVars, hostVars, proxyVars>>

\* ------------------------------------------------------- discovery by scan
\* (web/server.ts: every GET /devices runs one Bonjour scan)

\* the services Bonjour reports: a device with the addresses and the TXT
\* record it was seen with
LinkLocal == "169.254.0.9"
ServiceAddresses(d) == {<<>>, <<d.address>>, <<LinkLocal, d.address>>}
ServiceTxt == {[version |-> "1.0", api_version |-> "1"], [version |-> "1.0"]}
BonjourServices ==
    UNION {{[name |-> d.name, addresses |-> a, port |-> d.port, txt |-> t] :
               a \in ServiceAddresses(d), t \in ServiceTxt} : d \in Devices}

\* `http://${addr}:${service.port}/v${service.txt.api_version}/status`
scanUrl(service, addr) ==
    <<"http://", addr, ":", decimal(service.port), "/v",
      IF "api_version" \in DOMAIN service.txt
      THEN service.txt.api_version ELSE "undefined",
      "/status">>

NoScan == [pc |-> "idle", ups |-> EmptyMap, services |-> <<>>, response |-> <<>>]

\* app.get('/devices') up to `await scanMdns()`: the browser is started
ScanGet(q) ==
    /\ scans[q].pc = "idle"
    /\ \A p \in Snapshots : p < q => scans[p].pc # "idle"
    /\ scans' = [scans EXCEPT ![q].pc = "scanning"]
    /\ UNCHANGED <<MDNS_SERVICES, heard, snapshots, relayVars, hostVars, proxyVars>>

\* browser.on('up'): the handler starts on the service's first address, and
\* is over at once when there is none; a browser reports a service once
Up(q, service) ==
    /\ scans[q].pc = "scanning"
    /\ service.name \notin DOMAIN scans[q].ups
    /\ scans' = [scans EXCEPT ![q].ups = MapSet(@, service.name,
           [service |-> service, k |-> 1, waiting |-> service.addresses # <<>>])]
    /\ UNCHANGED <<MDNS_SERVICES, heard, snapshots, relayVars, hostVars, proxyVars>>

\* await fetch(url, { method: 'HEAD', signal: AbortSignal.timeout(500) })
\* settles: a 200 pushes the service and breaks; another status or a rejection
\* (the abort after 500 ms is one) moves on to the next address
ScanProbeSettles(q, name, outcome) ==
    /\ name \in DOMAIN scans[q].ups
    /\ scans[q].ups[name].waiting
    /\ LET up == scans[q].ups[name]
           service == up.service
           addr == service.addresses[up.k]
       IN scans' = [scans EXCEPT ![q] =
              IF outcome = "200"
              THEN [@ EXCEPT !.ups[name].waiting = FALSE,
                             !.services = Append(@,
                                 [name |-> service.name, address |-> addr,
                                  port |-> service.port,
                                  properties |-> service.txt])]
              ELSE [@ EXCEPT !.ups[name].k = up.k + 1,
                             !.ups[name].waiting = up.k + 1 <= Len(service.addresses)]]
    /\ UNCHANGED <<MDNS_SERVICES, heard, snapshots, relayVars, hostVars, proxyVars>>

\* the 5000 ms timer: browser.stop(), resolve(services), and the handler of
\* GET /devices sends what the array holds at that moment
ScanTimer(q) ==
    /\ scans[q].pc = "scanning"
    /\ scans' = [scans EXCEPT ![q].pc = "done", ![q].response = scans[q].services]
    /\ UNCHANGED <<MDNS_SERVICES, heard, snapshots, relayVars, hostVars, proxyVars>>

MdnsIdle ==
    /\ MDNS_SERVICES = EmptyObject
    /\ heard = <<>>
    /\ snapshots = [q \in Snapshots |-> NoSnapshot]
    /\ scans = [q \in Snapshots |-> NoScan]

ProxyIdle ==
    /\ requests = [r \in Requests |-> NoRequest]
    /\ fetched = {}

HostIdle ==
    /\ str = NoHost
    /\ verdict = "pending"

\* the state after `new RemoteWebSocketManager()`, before any upgrade request
RelayIdle ==
    /\ remoteConnections = EmptyMap
    /\ clientGroups = EmptyMap
    /\ sockets = <<>>
    /\ clients = [c \in Clients |->
           [readyState |-> "NEW", host |-> NoHost, remoteWs |-> 0, closed |-> FALSE]]
    /\ last = Quiet

Init ==
    /\ RelayIdle
    /\ HostIdle
    /\ ProxyIdle
    /\ MdnsIdle

Next ==
    \/ \E c \in Clients, path \in UpgradePaths : Upgrade(c, path)
    \/ \E c \in Clients, msg \in Payloads : ClientMessage(c, msg)
    \/ \E c \in Clients : ClientError(c)
    \/ \E c \in Clients : ClientClose(c)
    \/ \E k \in DOMAIN sockets : RemoteOpen(k)
    \/ \E k \in DOMAIN sockets : RemoteError(k)
    \/ \E k \in DOMAIN sockets : RemoteClose(k)
    \/ \E k \in DOMAIN sockets, f \in Frames : RemoteMessage(k, f[1], f[2])

Spec == Init /\ [][Next]_vars

\* ============================================================ proxy runs
ProxyInit ==
    /\ RelayIdle
    /\ HostIdle
    /\ ProxyIdle
    /\ MdnsIdle

ProxyNext ==
    \/ \E r \in Requests, h \in ProxyHosts, v \in Versions, e \in Endpoints :
           ProxyGet(r, h, v, e)
    \/ \E r \in Requests, h \in ProxyHosts, v \in Versions, e \in Endpoints,
          d \in PostBodies : ProxyPost(r, h, v, e, d)
    \/ \E r \in Requests, b \in DeviceBodies : FetchResolves(r, b)
    \/ \E r \in Requests : FetchRejects(r)
    \/ \E r \in Requests, intact \in BOOLEAN : BodySettles(r, intact)

\* the promise a handler awaits settles
Settles(r) ==
    \/ \E b \in DeviceBodies : FetchResolves(r, b)
    \/ FetchRejects(r)
    \/ \E intact \in BOOLEAN : BodySettles(r, intact)

ProxySpec == ProxyInit /\ [][ProxyNext]_vars

\* every awaited fetch and body read settles: the runtime ends a fetch whose
\* device stays silent with a rejection
ProxyLive == ProxySpec /\ \A r \in Requests : WF_vars(Settles(r))

\* ====================================================== host validator run

\* the pieces the validator's inputs are put together from
OctetTokens ==
    {<<>>, <<"7">>, <<"2", "5", "5">>, <<"2", "5", "6">>,
     <<"0", "2", "5", "5">>, <<"1", "a">>}
InnerTokens == {<<>>, <<"7">>, <<"2", "5", "6">>}
PortTokens ==
    {<<>>, <<"0">>, <<"1">>, <<"0", "8", "0">>, <<"6", "5", "5", "3", "5">>,
     <<"6", "5", "5", "3", "6">>, <<"0", "0", "0", "0", "8", "0">>, <<"8", "a">>}
\* the three separators of the octets, the separator of the port, the tail
Shapes ==
    {<< <<".">>, <<".">>, <<".">>, <<":">>, <<>> >>,
     << <<".">>, <<".">>, <<".">>, <<>>, <<>> >>,
     << <<".">>, <<".">>, <<".">>, <<".">>, <<>> >>,
     << <<".">>, <<".">>, <<":">>, <<":">>, <<>> >>,
     << <<".">>, <<".">>, <<>>, <<":">>, <<>> >>,
     << <<".">>, <<".">>, <<".">>, <<":">>, <<":", "1">> >>,
     << <<".">>, <<".">>, <<".">>, <<":">>, <<"\n">> >>}

\* "127.0.0.1:8080", "10.0.0.1:65535", "256.1.1.1:80", "10.0.0.1:0", "localhost:80"
Example1 == <<"1", "2", "7", ".", "0", ".", "0", ".", "1", ":", "8", "0", "8", "0">>
Example2 == <<"1", "0", ".", "0", ".", "0", ".", "1", ":", "6", "5", "5", "3", "5">>
Example3 == <<"2", "5", "6", ".", "1", ".", "1", ".", "1", ":", "8", "0">>
Example4 == <<"1", "0", ".", "0", ".", "0", ".", "1", ":", "0">>
Example5 == <<"l", "o", "c", "a", "l", "h", "o", "s", "t", ":", "8", "0">>
\* "::1:80" and "1.1.1.1" (no port)
Example6 == <<":", ":", "1", ":", "8", "0">>
Example7 == <<"1", ".", "1", ".", "1", ".", "1">>

HostInputs ==
    {Example1, Example2, Example3, Example4, Example5, Example6, Example7,
     HostA, HostB}
    \cup {o1 \o sh[1] \o o2 \o sh[2] \o o3 \o sh[3] \o o4 \o sh[4] \o p \o sh[5] :
            o1 \in OctetTokens, o2 \in InnerTokens, o3 \in InnerTokens,
            o4 \in OctetTokens, p \in PortTokens, sh \in Shapes}

HostInit ==
    /\ RelayIdle
    /\ ProxyIdle
    /\ MdnsIdle
    /\ str \in HostInputs
    /\ verdict = "pending"

\* one call of isValidHost(str)
Validate ==
    /\ verdict = "pending"
    /\ verdict' = IF isValidHost(str) THEN "valid" ELSE "invalid"
    /\ UNCHANGED <<str, relayVars, proxyVars, mdnsVars>>

HostNext == Validate

HostSpec == HostInit /\ [][HostNext]_vars

\* ========================================================== discovery runs
MdnsInit ==
    /\ RelayIdle
    /\ HostIdle
    /\ ProxyIdle
    /\ MdnsIdle

\* responses arrive while GET /devices requests are served
MdnsNext ==
    \/ \E response \in Responses : Response(response) /\ UNCHANGED heard
    \/ \E q \in Snapshots : DevicesGet(q)
    \/ \E q \in Snapshots, outcome \in ProbeOutcomes : ProbeSettles(q, outcome)

MdnsSpec == MdnsInit /\ [][MdnsNext]_vars

\* a recorded run: the responses received are written down, oldest first
AssemblyNext ==
    \E response \in Responses :
        /\ Len(heard) < MaxHeard
        /\ Response(response)
        /\ heard' = Append(heard, response)

AssemblySpec == MdnsInit /\ [][AssemblyNext]_vars

\* the scans of web/server.ts
ScanNext ==
    \/ \E q \in Snapshots : ScanGet(q)
    \/ \E q \in Snapshots, service \in BonjourServices : Up(q, service)
    \/ \E q \in Snapshots, d \in Devices, outcome \in ProbeOutcomes :
           ScanProbeSettles(q, d.name, outcome)
    \/ \E q \in Snapshots : ScanTimer(q)

ScanSpec == MdnsInit /\ [][ScanNext]_vars

\* ---------------------------------------------------- host validator claims

\* s[a..b] is a non-empty run of decimal digits
isNumeral(s, a, b) == a <= b /\ \A m \in a..b : s[m] \in Digits

Pow10(n) == CASE n = 0 -> 1 [] n = 1 -> 10 [] n = 2 -> 100 [] n = 3 -> 1000
              [] n = 4 -> 10000 [] n = 5 -> 100000 [] n = 6 -> 1000000

\* the integer the numeral s[a..b] denotes: the sum of digit * 10^place
RECURSIVE placeSum(_, _, _)
placeSum(s, a, b) ==
    IF a > b THEN 0 ELSE DigitValue(s[a]) * Pow10(b - a) + placeSum(s, a + 1, b)

positionsOf(s, ch) == {i \in DOMAIN s : s[i] = ch}

\* s is g1 "." g2 "." g3 "." g4 ":" p with every g a numeral of at most
\* octetDigits digits and value 0..255, and p a numeral of at most portDigits
\* digits and value 1..65535
dottedQuadPort(s, octetDigits, portDigits) ==
    \E d1 \in positionsOf(s, "."), d2 \in positionsOf(s, "."),
       d3 \in positionsOf(s, "."), c \in positionsOf(s, ":") :
        /\ d1 < d2 /\ d2 < d3 /\ d3 < c
        /\ \A g \in {<<1, d1 - 1>>, <<d1 + 1, d2 - 1>>, <<d2 + 1, d3 - 1>>,
                     <<d3 + 1, c - 1>>} :
              /\ isNumeral(s, g[1], g[2])
              /\ g[2] - g[1] < octetDigits
              /\ placeSum(s, g[1], g[2]) \in 0..255
        /\ isNumeral(s, c + 1, Len(s))
        /\ Len(s) - c <= portDigits
        /\ placeSum(s, c + 1, Len(s)) \in 1..65535

\* C8 as stated: isValidHost(s) is true exactly when s is four dot-separated
\* decimal integers in [0,255], ':' and a decimal integer in [1,65535].
C8_ValidIffDottedQuadPort ==
    verdict # "pending" =>
        ((verdict = "valid") <=> dottedQuadPort(str, Len(str), Len(str)))

\* C8: isValidHost(s) is true exactly when s is four dot-separated groups of
\* one to three decimal digits with values in [0,255], ':' and a group of one
\* to five decimal digits with a value in [1,65535]; the examples of the claim
\* are accepted and rejected as it says.
C8_ValidIffBoundedDigitGroups ==
    verdict # "pending" =>
        /\ (verdict = "valid") <=> dottedQuadPort(str, 3, 5)
        /\ str \in {Example1, Example2} => verdict = "valid"
        /\ str \in {Example3, Example4, Example5} => verdict = "invalid"

C8_Witness ==
    /\ verdict = "valid"
    /\ str = Example2

\* ========================================================== proxy claims

forwarded(r) == \E f \in fetched : f.req = r
\* resp is { error: <text> <what> }
isErrorNaming(resp, text, what) ==
    /\ resp.type = "json"
    /\ DOMAIN resp.body = {"error"}
    /\ Len(resp.body.error) = 2
    /\ resp.body.error[1] = text
    /\ resp.body.error[2] = what

\* the whitelists as the claim gives them
claimedWhitelist(method) ==
    IF method = "GET" THEN {"configuration", "schema"}
    ELSE {"configuration", "start", "stop"}

\* C7: every network call whose destination comes from a client-supplied host
\* (the upstream WebSocket of the relay, the fetch of the proxy routes) goes to
\* a host that isValidHost accepts.
C7_NetworkCallsValidated ==
    /\ \A k \in DOMAIN sockets : isValidHost(sockets[k].url[2])
    /\ \A f \in fetched : isValidHost(f.url[2])

\* C9: a proxy request with a valid host whose operation is not whitelisted for
\* its method is answered with one {error} that names the operation, and no
\* fetch is issued for it.
C9_UnlistedOperationRejected ==
    \A r \in Requests :
        (/\ requests[r].pc # "idle"
         /\ isValidHost(requests[r].host)
         /\ requests[r].endpoint \notin claimedWhitelist(requests[r].method))
            => /\ requests[r].pc = "done"
               /\ Len(requests[r].responses) = 1
               /\ isErrorNaming(requests[r].responses[1], "Invalid endpoint: ",
                                requests[r].endpoint)
               /\ ~forwarded(r)

C9_Witness ==
    \E r \in Requests :
        /\ requests[r].pc = "done"
        /\ requests[r].method = "GET"
        /\ requests[r].endpoint = "start"
        /\ isValidHost(requests[r].host)
        /\ Len(requests[r].responses) = 1

\* what a forward has answered so far is at most one response; once its handler
\* is done it is one response: the device's body, or -- when the connection
\* failed, the device stayed silent or its body could not be read or decoded --
\* an {error} that names the URL
forwardAnswered(r) ==
    LET req == requests[r]
        url == proxyUrl(req.host, req.apiVersion, req.endpoint)
    IN /\ Len(req.responses) <= 1
       /\ (forwarded(r) /\ req.pc = "done") =>
             /\ Len(req.responses) = 1
             /\ IF req.device = "answered"
                THEN /\ DOMAIN req.responses[1].body = {"device"}
                     /\ req.responses[1].body.device \in {req.body.text, req.body.value}
                ELSE isErrorNaming(req.responses[1], "Unreachable: ", url)

\* C10: every proxy forward ends with exactly one well-formed response, the
\* device's body or an {error} naming the unreachable URL, whatever the device
\* does.
C10_ForwardAlwaysAnswers ==
    /\ [](\A r \in Requests : forwardAnswered(r))
    /\ \A r \in Requests :
          forwarded(r) ~> (requests[r].pc = "done" /\ Len(requests[r].responses) = 1)

C10_Witness ==
    \E r \in Requests :
        /\ requests[r].pc = "done"
        /\ requests[r].device = "undecodable"
        /\ isErrorNaming(requests[r].responses[1], "Unreachable: ",
               proxyUrl(requests[r].host, requests[r].apiVersion, requests[r].endpoint))

\* =================================================== relay manager: claims

opened(c) == clients[c].remoteWs # 0
groupOf(h) == IF MapHas(clientGroups, h) THEN clientGroups[h] ELSE {}
socketsOf(h) == {k \in DOMAIN sockets : sockets[k].host = h}
liveSocketsOf(h) == {k \in socketsOf(h) : sockets[k].readyState # "CLOSED"}

\* C1: for every host at most one upstream connection created by the manager
\* is not yet CLOSED (it is CONNECTING, OPEN or CLOSING).
C1_AtMostOneLiveUpstream ==
    \A h \in RelayHosts : Cardinality(liveSocketsOf(h)) <= 1

\* C2: an open for a host that already has a connection entry returns that
\* connection, and afterwards the host's group holds every client registered
\* before the call and the new client.
C2_OpenSharesExisting ==
    [][\A c \in Clients :
          LET h == clients'[c].host IN
          (~opened(c) /\ clients'[c].remoteWs # 0 /\ MapHas(remoteConnections, h))
              => /\ clients'[c].remoteWs = remoteConnections[h]
                 /\ MapHas(clientGroups', h)
                 /\ (groupOf(h) \cup {c}) \subseteq clientGroups'[h]]_vars

\* C3: an inbound message of a host's upstream connection is delivered to every
\* client that opened the host, was not closed since and is locally OPEN, and
\* to no client that was closed.
C3_FanOutToAllOpenClients ==
    last.op = "message" =>
        /\ \A c \in Clients :
              (/\ opened(c)
               /\ clients[c].host = sockets[last.conn].host
               /\ ~clients[c].closed
               /\ clients[c].readyState = "OPEN") => c \in last.to
        /\ \A c \in last.to : ~clients[c].closed

\* every client that opened h has been closed (and some client opened h)
allClosedFor(h) ==
    /\ \E c \in Clients : opened(c) /\ clients[c].host = h
    /\ \A c \in Clients : (opened(c) /\ clients[c].host = h) => clients[c].closed

\* C4: when the close of the last client of a host returns, the host's upstream
\* connections have been closed and the host has neither a group entry nor a
\* connection entry; an open that follows creates a new connection.
C4_TeardownRemovesRelayKey ==
    [][\A c \in Clients, h \in RelayHosts :
          /\ (/\ clients[c].host = h
              /\ ~clients[c].closed /\ clients'[c].closed
              /\ allClosedFor(h)')
                => /\ ~MapHas(remoteConnections', h)
                   /\ ~MapHas(clientGroups', h)
                   /\ \A k \in socketsOf(h) :
                         sockets'[k].readyState \in {"CLOSING", "CLOSED"}
          /\ (/\ ~opened(c) /\ clients'[c].remoteWs # 0 /\ clients'[c].host = h
              /\ allClosedFor(h))
                => clients'[c].remoteWs \notin DOMAIN sockets]_vars

\* C5: a close for a client that is not registered for the host (already
\* removed, never registered, or the host unknown) leaves both tables as they
\* are and invokes close on no upstream connection.
C5_CloseIdempotent ==
    [][\A c \in Clients :
          (~clients[c].closed /\ clients'[c].closed /\ c \notin groupOf(clients[c].host))
              => /\ UNCHANGED <<remoteConnections, clientGroups>>
                 /\ \A k \in DOMAIN sockets :
                       sockets'[k].closeCalls = sockets[k].closeCalls]_vars

\* C6 as stated: a host with a non-empty group has a connection entry.
C6_GroupHasConnection ==
    \A h \in DOMAIN clientGroups :
        clientGroups[h] # {} => MapHas(remoteConnections, h)

\* C6: a host with a non-empty group has a connection entry, unless the close
\* event of a connection created for that host has fired (the handler removes
\* the entry and keeps the group).
C6_GroupHasConnectionUnlessDisconnected ==
    \A h \in DOMAIN clientGroups :
        clientGroups[h] # {} =>
            \/ MapHas(remoteConnections, h)
            \/ \E k \in socketsOf(h) : sockets[k].readyState = "CLOSED"

C6_Witness ==
    \E h \in DOMAIN clientGroups :
        /\ clientGroups[h] # {}
        /\ ~MapHas(remoteConnections, h)
        /\ \E c \in clientGroups[h] : clients[c].readyState = "OPEN"

\* C15: when open(client, host, apiVersion) returns, client is a member of the
\* group stored for host, whatever the host's entry was when open was called.
C15_OpenRegistersClient ==
    [][\A c \in Clients :
          (~opened(c) /\ clients'[c].remoteWs # 0)
              => /\ MapHas(clientGroups', clients'[c].host)
                 /\ c \in clientGroups'[clients'[c].host]]_vars

\* the state of a host's relay key: ABSENT without a connection entry, else the
\* readyState of the recorded connection
keyState(h) ==
    IF MapHas(remoteConnections, h)
    THEN sockets[remoteConnections[h]].readyState
    ELSE "ABSENT"

keyRank(st) ==
    CASE st = "ABSENT" -> 0 [] st = "CONNECTING" -> 1 [] st = "OPEN" -> 2
      [] st = "CLOSING" -> 3 [] OTHER -> 4

\* C16: the connection recorded for a host moves forward along ABSENT,
\* CONNECTING, OPEN, CLOSING and back to ABSENT; an open in ABSENT records a
\* CONNECTING connection, an open in any other state leaves the recorded
\* connection as it is, and no step replaces an OPEN or CLOSING connection by
\* a new CONNECTING one.
C16_KeyStateMachine ==
    [][\A h \in RelayHosts :
          /\ keyState(h)' # keyState(h) =>
                \/ keyState(h)' = "ABSENT"
                \/ keyState(h) = "ABSENT" /\ keyState(h)' = "CONNECTING"
                \/ keyRank(keyState(h)) < keyRank(keyState(h)')
          /\ \A c \in Clients :
                (~opened(c) /\ clients'[c].remoteWs # 0 /\ clients'[c].host = h)
                    => IF keyState(h) = "ABSENT"
                       THEN keyState(h)' = "CONNECTING"
                       ELSE /\ MapHas(remoteConnections', h)
                            /\ remoteConnections'[h] = remoteConnections[h]
          /\ (keyState(h) \in {"OPEN", "CLOSING"} /\ MapHas(remoteConnections', h))
                => remoteConnections'[h] = remoteConnections[h]]_vars

\* C17: the close event of an upstream connection removes the connection entry
\* of its host and leaves every client group as it is; an open for a host
\* without an entry creates and records a new CONNECTING connection; a
\* connection is created, and an entry recorded, only by an open.
C17_LazyReconnect ==
    [][/\ \A k \in DOMAIN sockets :
             (sockets[k].readyState # "CLOSED" /\ sockets'[k].readyState = "CLOSED")
                 => /\ ~MapHas(remoteConnections', sockets[k].host)
                    /\ clientGroups' = clientGroups
       /\ \A c \in Clients :
             (/\ ~opened(c) /\ clients'[c].remoteWs # 0
              /\ ~MapHas(remoteConnections, clients'[c].host))
                 => /\ clients'[c].remoteWs \notin DOMAIN sockets
                    /\ clients'[c].remoteWs \in DOMAIN sockets'
                    /\ sockets'[clients'[c].remoteWs].readyState = "CONNECTING"
                    /\ sockets'[clients'[c].remoteWs].host = clients'[c].host
                    /\ MapHas(remoteConnections', clients'[c].host)
                    /\ remoteConnections'[clients'[c].host] = clients'[c].remoteWs
       /\ \A h \in RelayHosts :
             (\/ Len(sockets') # Len(sockets)
              \/ (~MapHas(remoteConnections, h) /\ MapHas(remoteConnections', h)))
                 => \E c \in Clients : ~opened(c) /\ clients'[c].remoteWs # 0]_vars

\* a host whose connection closed by its close event and that an open
\* reconnected afterwards, its group still served
C17_Witness ==
    \E h \in RelayHosts : \E k1 \in socketsOf(h) :
        /\ sockets[k1].readyState = "CLOSED"
        /\ MapHas(remoteConnections, h)
        /\ remoteConnections[h] > k1
        /\ sockets[remoteConnections[h]].readyState = "CONNECTING"
        /\ groupOf(h) # {}

\* C18: close(client, host) runs to completion whenever the client's close
\* event fires, and when it returns client is in no group of the host,
\* whatever the state of the host's upstream connection.
C18_CloseRemovesClient ==
    /\ [](\A c \in Clients :
             (clients[c].readyState \in {"OPEN", "CLOSING"} /\ opened(c))
                 => ENABLED ClientClose(c))
    /\ [][\A c \in Clients :
             (~clients[c].closed /\ clients'[c].closed)
                 => (MapHas(clientGroups', clients[c].host)
                        => c \notin clientGroups'[clients[c].host])]_vars

\* a client closed while others stay registered for the host and its upstream
\* connection is OPEN
C18_Witness ==
    \E c \in Clients :
        /\ clients[c].closed
        /\ groupOf(clients[c].host) # {}
        /\ keyState(clients[c].host) = "OPEN"

\* C19: a host has relay state only while its group is non-empty: no empty
\* group is stored and no connection entry exists for a host without a group.
C19_RelayStateOnlyWhileGroup ==
    /\ \A h \in DOMAIN clientGroups : clientGroups[h] # {}
    /\ \A h \in DOMAIN remoteConnections : MapHas(clientGroups, h)

\* the hosts a step is about: of the clients it opened, closed or saw fail, of
\* the upstream sockets it created or changed, of the message it delivered
touchedHosts ==
    {clients'[c].host : c \in {d \in Clients : clients'[d] # clients[d]}}
        \cup {sockets'[k].host :
                 k \in {j \in DOMAIN sockets' :
                           j \notin DOMAIN sockets \/ sockets'[j] # sockets[j]}}
        \cup (IF last'.op = "message" THEN {sockets[last'.conn].host} ELSE {})

\* C20: an open, a close or an upstream event of host h leaves the connection
\* entry and the group of every other host unchanged and sends no message to
\* a client of another host.
C20_RelayKeysIsolated ==
    [][\A h2 \in RelayHosts :
          h2 \notin touchedHosts =>
              /\ MapHas(remoteConnections', h2) <=> MapHas(remoteConnections, h2)
              /\ MapHas(remoteConnections, h2)
                    => remoteConnections'[h2] = remoteConnections[h2]
              /\ MapHas(clientGroups', h2) <=> MapHas(clientGroups, h2)
              /\ MapHas(clientGroups, h2) => clientGroups'[h2] = clientGroups[h2]
              /\ last'.op = "message"
                    => \A c \in last'.to : clients[c].host # h2]_vars

\* a message of one host is delivered while an OPEN client is registered for
\* another host
C20_Witness ==
    /\ last.op = "message"
    /\ last.to # {}
    /\ \E c \in Clients :
          /\ clients[c].readyState = "OPEN"
          /\ opened(c)
          /\ clients[c].host # sockets[last.conn].host
          /\ c \in groupOf(clients[c].host)

\* ================================================ discovery registry: claims

\* a record is complete once address, port and api_version are populated
complete(service) ==
    /\ "address" \in DOMAIN service
    /\ "port" \in DOMAIN service
    /\ "properties" \in DOMAIN service
    /\ "api_version" \in DOMAIN service.properties

\* the table after the responses of a run, fed to an empty table in order
RECURSIVE feed(_, _)
feed(table, responses) ==
    IF responses = <<>> THEN table
    ELSE feed(onResponse(table, Head(responses)), Tail(responses))

\* the fragments of a device one by one: attributes, location, address, name
attributesFirst(d, txtData) ==
    <<single(TXT(d, txtData)), single(SRV(d)), single(A(d)), single(PTR(d))>>

\* the fragments of a device one by one: name, address, location, attributes
nameFirst(d, txtData) ==
    <<single(PTR(d)), single(A(d)), single(SRV(d)), single(TXT(d, txtData))>>

\* C11: after a device's fragments arrived in the order attributes, location,
\* address, name, the table holds for it the same completed record as after
\* the order name, address, location, attributes.
C11_AssemblyOrderIndependent ==
    \A d \in Devices :
        heard = attributesFirst(d, TxtFull) =>
            /\ hasKey(MDNS_SERVICES, d.name)
            /\ complete(MDNS_SERVICES.at[d.name])
            /\ MDNS_SERVICES.at[d.name] =
                   feed(EmptyObject, nameFirst(d, TxtFull)).at[d.name]

\* the records a snapshot that has probed all of its list should return: those
\* that are complete and whose probe came back with status 200
RECURSIVE liveAndComplete(_, _)
liveAndComplete(snap, j) ==
    IF j > Len(snap.list) THEN <<>>
    ELSE (IF complete(MDNS_SERVICES.at[snap.list[j]]) /\ snap.outcomes[j] = "200"
          THEN <<MDNS_SERVICES.at[snap.list[j]]>>
          ELSE <<>>) \o liveAndComplete(snap, j + 1)

\* C12: GET /devices answers with exactly the table records that are complete
\* and whose liveness probe came back with status 200; a record whose probe
\* failed is left out and stays in the table; an incomplete record is never in
\* the answer.
C12_SnapshotLiveAndComplete ==
    [][\A q \in Snapshots :
          (snapshots[q].pc # "done" /\ snapshots'[q].pc = "done")
              => /\ snapshots'[q].response = liveAndComplete(snapshots'[q], 1)
                 /\ \A j \in DOMAIN snapshots'[q].list :
                       hasKey(MDNS_SERVICES', snapshots'[q].list[j])]_vars

\* C13: a record of the table stays in the table, whatever responses arrive,
\* whatever snapshots are taken and whatever their probes return.
C13_TableNeverLosesRecord ==
    [][/\ DOMAIN MDNS_SERVICES.at \subseteq DOMAIN MDNS_SERVICES'.at
       /\ \A j \in DOMAIN MDNS_SERVICES.keys :
             /\ j \in DOMAIN MDNS_SERVICES'.keys
             /\ MDNS_SERVICES'.keys[j] = MDNS_SERVICES.keys[j]]_vars

\* a snapshot left out a complete record whose probe failed, and the table
\* holds that record and another one
C13_Witness ==
    \E q \in Snapshots :
        /\ snapshots[q].pc = "done"
        /\ Len(MDNS_SERVICES.keys) >= 2
        /\ \E j \in DOMAIN snapshots[q].list :
              /\ snapshots[q].outcomes[j] # "200"
              /\ hasKey(MDNS_SERVICES, snapshots[q].list[j])
              /\ complete(MDNS_SERVICES.at[snapshots[q].list[j]])

\* C14: the probes of a snapshot run side by side: while the snapshot waits
\* for a device, no other record of the snapshot is still waiting for its own
\* probe to be issued, so a device that does not answer holds back no other.
C14_ProbesRunConcurrently ==
    \A q \in Snapshots :
        snapshots[q].pc = "probing" =>
            \A j \in DOMAIN snapshots[q].list : j <= snapshots[q].i

\* the scan of web/server.ts, held against the same statements on snapshots:
\* every service in an answer carries an api_version
ScanAnswersOnlyComplete ==
    \A q \in Snapshots : \A j \in DOMAIN scans[q].response :
        "api_version" \in DOMAIN scans[q].response[j].properties

\* the answer of a scan is sent only when every probe of the scan has settled
ScanWaitsForProbes ==
    \A q \in Snapshots :
        scans[q].pc = "done" =>
            \A name \in DOMAIN scans[q].ups : ~scans[q].ups[name].waiting

\* two services of one scan are being probed at the same moment
ScanProbesSideBySide ==
    \E q \in Snapshots :
        Cardinality({name \in DOMAIN scans[q].ups : scans[q].ups[name].waiting}) >= 2

\* ------------------------------------------------- attribute fragments

\* the lexemes of an entry after its first '=' (the value of 'key=value')
afterFirstEquals(entry) ==
    LET i == CHOOSE x \in DOMAIN entry :
                 entry[x] = "=" /\ \A y \in 1..(x - 1) : entry[y] # "="
    IN SubSeq(entry, i + 1, Len(entry))

\* a property value is what the entry says: true for an entry without '=',
\* else the string after the first '='
saysEntry(value, entry) ==
    IF \A i \in DOMAIN entry : entry[i] # "="
    THEN value[1] = "boolean"
    ELSE /\ value[1] = "string"
         /\ <<value[2]>> = afterFirstEquals(entry)

\* C21: a TXT fragment for a name that has a record leaves in that record the
\* properties its entries say -- properties[key] = value for 'key=value',
\* properties[key] = true for an entry without '=' -- and leaves the record's
\* other fields and every other record as they are.
C21_TxtParsedTokenByToken ==
    [][\A d \in Devices, txtData \in TxtData :
          (/\ heard' = Append(heard, single(TXT(d, txtData)))
           /\ hasKey(MDNS_SERVICES, d.name))
              => LET before == MDNS_SERVICES.at[d.name]
                     after == MDNS_SERVICES'.at[d.name]
                 IN /\ DOMAIN after = DOMAIN before \cup {"properties"}
                    /\ \A f \in DOMAIN before \ {"properties"} : after[f] = before[f]
                    /\ \A key \in DOMAIN MDNS_SERVICES.at \ {d.name} :
                          MDNS_SERVICES'.at[key] = MDNS_SERVICES.at[key]
                    /\ DOMAIN after["properties"] =
                           {txtData[j][1] : j \in DOMAIN txtData}
                    /\ \A j \in DOMAIN txtData :
                          saysEntry(after["properties"][txtData[j][1]], txtData[j])]_vars

\* ------------------------------------------- relay manager: further claims

\* C22: a client's message is sent on the socket its own open returned exactly
\* when that socket is OPEN at that moment; otherwise it is dropped, and
\* nothing is sent on any socket except by the message handler of a client
\* for the message it was called with.
C22_ForwardOnlyWhenOwnHandleOpen ==
    /\ [](/\ last.op = "send" =>
                /\ last.conn = clients[last.client].remoteWs
                /\ sockets[last.conn].readyState = "OPEN"
          /\ last.op = "drop" =>
                sockets[clients[last.client].remoteWs].readyState # "OPEN")
    /\ [][last'.op \in {"send", "drop"} =>
             UNCHANGED <<remoteConnections, clientGroups, sockets, clients>>]_vars

\* a message is dropped although the host has another connection that is OPEN
C22_Witness ==
    /\ last.op = "drop"
    /\ LET h == clients[last.client].host
       IN /\ MapHas(remoteConnections, h)
          /\ remoteConnections[h] # clients[last.client].remoteWs
          /\ sockets[remoteConnections[h]].readyState = "OPEN"

\* C23: the close event of an upstream connection removes the entry of its
\* host only when the entry refers to that connection; an entry that refers
\* to another connection stays.
C23_CloseRemovesOnlyOwnEntry ==
    [][\A k \in DOMAIN sockets :
          (/\ sockets[k].readyState # "CLOSED"
           /\ sockets'[k].readyState = "CLOSED"
           /\ MapHas(remoteConnections, sockets[k].host)
           /\ remoteConnections[sockets[k].host] # k)
              => /\ MapHas(remoteConnections', sockets[k].host)
                 /\ remoteConnections'[sockets[k].host] =
                        remoteConnections[sockets[k].host]]_vars

\* C24: an upstream message is delivered only to clients whose own open
\* returned the connection it arrived on.
C24_MessagesOnlyFromOwnHandle ==
    last.op = "message" =>
        \A c \in last.to : clients[c].remoteWs = last.conn

\* C25: a client that is in its host's group and has not been closed is still
\* in the group after another client's open re-establishes the host's
\* connection following an upstream disconnect.
C25_GroupSurvivesReconnect ==
    [][\A c \in Clients, d \in Clients :
          (/\ c # d
           /\ opened(c) /\ ~clients[c].closed
           /\ c \in groupOf(clients[c].host)
           /\ ~MapHas(remoteConnections, clients[c].host)
           /\ ~opened(d) /\ clients'[d].remoteWs # 0
           /\ clients'[d].host = clients[c].host)
              => /\ MapHas(clientGroups', clients[c].host)
                 /\ c \in clientGroups'[clients[c].host]]_vars

\* C26: once every client that opened a host has been closed, every upstream
\* connection created for the host has had close invoked on it or has
\* closed by itself.
C26_NoUpstreamLeak ==
    \A h \in RelayHosts :
        allClosedFor(h) =>
            \A k \in socketsOf(h) :
                \/ sockets[k].closeCalls > 0
                \/ sockets[k].readyState \in {"CLOSING", "CLOSED"}

====
